---- MODULE Spec2Model ----
(***************************************************************************)
(* Model of the flood-control analytics pipeline (rust/mco2/src/main.rs):  *)
(* ingestion and year filter, the three tabular report generators, the     *)
(* summary, and main's sequencing of them.                                 *)
(*                                                                         *)
(* f64 values are kept exact: a finite value is a reduced fraction n/d,    *)
(* and the three IEEE-754 specials (+inf, -inf, NaN) are separate kinds.   *)
(* Rounding error and overflow of finite sums are not modelled.  Zero is   *)
(* unsigned and stands for +0.0, which is what every zero divisor of the   *)
(* program is (an i64 converted to f64, a sum of non-negative terms, or    *)
(* x - x).  The sign bit of a NaN produced by an invalid operation is not  *)
(* fixed by the language; it is the per-build choice nan_neg.              *)
(***************************************************************************)
EXTENDS Integers, Sequences, FiniteSets

VARIABLES
    rows,       \* dpwh_flood_control_projects.csv: the raw rows, in file order
    nan_neg,    \* the build's sign bit of a NaN produced by 0/0, inf-inf, 0*inf
    projects,   \* main's `projects`: the filtered records
    pc,         \* main's position: "start", "r1", "r2", "r3", "summary", "done"
    ret,        \* main's return value: "none" while running, "ok", or "err_<step>"
    started,    \* the export steps started so far, in order
    encounter,  \* create_report_1: region keys in the order the group map yielded them
    files,      \* the four output files: the rows handed to the writer, and
                \* whether none, some prefix or all of them reached the file
    cache,      \* the OnceLock cells of each record of `projects`:
                \* cached_cost_savings and cached_completion_delay_days
    calls,      \* history, per record: the values its two accessors have
                \* returned, in call order, and how often each closure has run
    accounts,        \* banking program (rust/mco1): main's `accounts`
    exchange_rates,  \* banking program: main's `exchange_rates`, code -> rate
    console          \* banking program: the last message printed

\* the state of the banking program; its main's position is pc as well:
\* "menu", "back" (the Back to the Main Menu prompt), "exited", "panicked"
bank_vars == <<accounts, exchange_rates, console>>

vars == <<rows, nan_neg, projects, pc, ret, started, encounter, files, cache, calls,
          accounts, exchange_rates, console>>

---------------------------------------------------------------------------
(* Bounds of the model. *)

\* main pipeline: most rows in the csv file
MaxRows == 3
\* create_report_1 inputs: most records of the single-region (median) inputs
MaxMedianRecs == 4
\* create_report_1 inputs: most records of the multi-region (sort) inputs
MaxSortRecs == 3
\* create_report_2 inputs: most contractors
MaxContractors == 17
\* create_report_3 inputs: most records
MaxTrendRecs == 3
\* a group map with up to this many keys is iterated in every order; a larger
\* one in first-occurrence order and its reverse, each rotated by up to this
\* many places
MaxShuffled == 3
\* the most groups in an input of the three reports run one after the other
MaxDegenerateGroups == 2
\* banking program: the most accounts, and the highest balance
MaxAccounts == 3
MaxBalance == 20

---------------------------------------------------------------------------
(* Program constants. *)

YearLo == 2021
YearHi == 2023
MinProjects == 5
TopN == 15
HighDelayDays == 30
DelayScale == 90
RiskThreshold == 50
YoYMaxYear == 2021

FileNames == {"report1_regional_summary.csv", "report2_contractor_ranking.csv",
              "report3_annual_trends.csv", "summary.json"}

---------------------------------------------------------------------------
(* f64 arithmetic. *)

AbsInt(i) == IF i < 0 THEN -i ELSE i

SgnInt(i) == IF i < 0 THEN -1 ELSE IF i > 0 THEN 1 ELSE 0

RECURSIVE GCD(_, _)
GCD(a, b) == IF b = 0 THEN a ELSE GCD(b, a % b)

Fin(n, d) ==
    LET g == GCD(AbsInt(n), d)
    IN  [k |-> "fin", n |-> n \div g, d |-> d \div g]

NaN == [k |-> "nan", n |-> 0, d |-> 1]

Inf(s) == [k |-> IF s < 0 THEN "ninf" ELSE "pinf", n |-> 0, d |-> 1]

FromInt(i) == Fin(i, 1)

\* -1, 0, 1 for a non-NaN value
Sgn(x) == IF x.k = "pinf" THEN 1 ELSE IF x.k = "ninf" THEN -1 ELSE SgnInt(x.n)

\* a division whose result for a zero divisor is 0
FDivZeroAsZero(a, b) ==
    IF a.k = "nan" \/ b.k = "nan" THEN NaN
    ELSE IF a.k # "fin" THEN
        IF b.k # "fin" THEN NaN
        ELSE Inf(Sgn(a) * (IF b.n < 0 THEN -1 ELSE 1))
    ELSE IF b.k # "fin" THEN Fin(0, 1)
    ELSE IF b.n = 0 THEN Fin(0, 1)
    ELSE Fin(a.n * b.d * SgnInt(b.n), a.d * AbsInt(b.n))

\* a zero divisor is +0.0, so x / 0 takes the sign of x
FDiv(a, b) ==
    IF a.k = "nan" \/ b.k = "nan" THEN NaN
    ELSE IF a.k # "fin" THEN
        IF b.k # "fin" THEN NaN
        ELSE Inf(Sgn(a) * (IF b.n < 0 THEN -1 ELSE 1))
    ELSE IF b.k # "fin" THEN Fin(0, 1)
    ELSE IF b.n = 0 THEN (IF a.n = 0 THEN NaN ELSE Inf(Sgn(a)))
    ELSE Fin(a.n * b.d * SgnInt(b.n), a.d * AbsInt(b.n))

FMul(a, b) ==
    IF a.k = "nan" \/ b.k = "nan" THEN NaN
    ELSE IF a.k # "fin" \/ b.k # "fin" THEN
        IF Sgn(a) = 0 \/ Sgn(b) = 0 THEN NaN ELSE Inf(Sgn(a) * Sgn(b))
    ELSE Fin(a.n * b.n, a.d * b.d)

FAdd(a, b) ==
    IF a.k = "nan" \/ b.k = "nan" THEN NaN
    ELSE IF a.k # "fin" THEN (IF b.k # "fin" /\ b.k # a.k THEN NaN ELSE a)
    ELSE IF b.k # "fin" THEN b
    ELSE Fin(a.n * b.d + b.n * a.d, a.d * b.d)

FSub(a, b) ==
    IF a.k = "nan" \/ b.k = "nan" THEN NaN
    ELSE IF a.k # "fin" THEN (IF b.k = a.k THEN NaN ELSE a)
    ELSE IF b.k # "fin" THEN Inf(-Sgn(b))
    ELSE Fin(a.n * b.d - b.n * a.d, a.d * b.d)

\* IEEE a < b: false when either side is NaN
FLt(a, b) ==
    /\ a.k # "nan"
    /\ b.k # "nan"
    /\ IF a.k = "fin" /\ b.k = "fin" THEN a.n * b.d < b.n * a.d
       ELSE IF a.k = b.k THEN FALSE
       ELSE a.k = "ninf" \/ b.k = "pinf"

\* f64::total_cmp: -NaN < -inf < finite < +inf < +NaN; -1, 0 or 1
TotalCmp(a, b) ==
    LET rank(x) == IF x.k = "nan" THEN (IF nan_neg THEN 0 ELSE 4)
                   ELSE IF x.k = "ninf" THEN 1
                   ELSE IF x.k = "fin" THEN 2 ELSE 3
    IN  IF rank(a) # rank(b) THEN (IF rank(a) < rank(b) THEN -1 ELSE 1)
        ELSE IF a.k # "fin" THEN 0
        ELSE SgnInt(a.n * b.d - b.n * a.d)

\* f64::clamp: NaN stays NaN
FClamp(x, lo, hi) == IF FLt(x, lo) THEN lo ELSE IF FLt(hi, x) THEN hi ELSE x

FAbs(x) ==
    IF x.k = "ninf" THEN Inf(1)
    ELSE IF x.k = "fin" THEN Fin(AbsInt(x.n), x.d)
    ELSE x

---------------------------------------------------------------------------
(* Sequence helpers standing for the iterator adaptors the code uses. *)

Range(s) == {s[i] : i \in 1..Len(s)}

\* Iterator::sum over i64
SumSeq(s) ==
    LET acc[k \in 0..Len(s)] == IF k = 0 THEN 0 ELSE acc[k - 1] + s[k]
    IN  acc[Len(s)]

\* Iterator::sum over f64
FSum(s) ==
    LET acc[k \in 0..Len(s)] == IF k = 0 THEN FromInt(0) ELSE FAdd(acc[k - 1], s[k])
    IN  acc[Len(s)]

Reverse(s) == [i \in 1..Len(s) |-> s[Len(s) + 1 - i]]

Take(s, n) == SubSeq(s, 1, IF Len(s) < n THEN Len(s) ELSE n)

---------------------------------------------------------------------------
(* Project records and ingestion. *)

\* Project::cost_savings
cost_savings(p) == FSub(FromInt(p.approved_budget_for_contract), FromInt(p.contract_cost))

\* projects.iter().map(|p| p.cost_savings()).collect()
cost_savings_of(group) == [i \in 1..Len(group) |-> cost_savings(group[i])]

\* Project::completion_delay_days; dates are day numbers
completion_delay_days(p) == p.actual_completion_date - p.start_date

\* projects.iter().map(|p| p.completion_delay_days()).collect()
completion_delay_days_of(group) == [i \in 1..Len(group) |-> completion_delay_days(group[i])]

\* OnceLock::default(), which serde(skip_deserializing) gives both cells of a
\* deserialized record: the empty cell.  A filled cell is <<value>>.
EmptyCell == <<>>

\* an accessor that runs its closure and stores the result at every call
get_or_init_always(cell, value) == [cell |-> <<value>>, value |-> value, ran |-> TRUE]

\* OnceLock::get_or_init: the closure, whose result is `value`, runs only for
\* an empty cell; the cell afterwards, the value returned, and whether the
\* closure ran
get_or_init(cell, value) ==
    IF cell = EmptyCell
    THEN [cell |-> <<value>>, value |-> value, ran |-> TRUE]
    ELSE [cell |-> cell, value |-> cell[1], ran |-> FALSE]

\* the cells of freshly deserialized records
NewCache(ps) ==
    [i \in 1..Len(ps) |->
        [cached_cost_savings |-> EmptyCell, cached_completion_delay_days |-> EmptyCell]]

\* the history before any call
NoCalls(ps) ==
    [i \in 1..Len(ps) |->
        [cost_savings |-> <<>>, savings_inits |-> 0,
         completion_delay_days |-> <<>>, delay_inits |-> 0]]

\* one call of cost_savings() on each record at the positions S and one of
\* completion_delay_days() on each record at the positions D
call_accessors(S, D) ==
    /\ cache' =
        [i \in 1..Len(projects) |->
            [cached_cost_savings |->
                IF i \in S
                THEN get_or_init(cache[i].cached_cost_savings, cost_savings(projects[i])).cell
                ELSE cache[i].cached_cost_savings,
             cached_completion_delay_days |->
                IF i \in D
                THEN get_or_init(cache[i].cached_completion_delay_days,
                                 completion_delay_days(projects[i])).cell
                ELSE cache[i].cached_completion_delay_days]]
    /\ calls' =
        [i \in 1..Len(projects) |->
            LET sv == get_or_init(cache[i].cached_cost_savings, cost_savings(projects[i]))
                dl == get_or_init(cache[i].cached_completion_delay_days,
                                  completion_delay_days(projects[i]))
            IN  [cost_savings |->
                    IF i \in S THEN Append(calls[i].cost_savings, sv.value)
                    ELSE calls[i].cost_savings,
                 savings_inits |->
                    calls[i].savings_inits + (IF i \in S /\ sv.ran THEN 1 ELSE 0),
                 completion_delay_days |->
                    IF i \in D THEN Append(calls[i].completion_delay_days, dl.value)
                    ELSE calls[i].completion_delay_days,
                 delay_inits |->
                    calls[i].delay_inits + (IF i \in D /\ dl.ran THEN 1 ELSE 0)]]

\* the filter with the half-open range 2021..2023
InFundingRangeHalfOpen(p) == YearLo <= p.funding_year /\ p.funding_year < YearHi

\* the filter with the range 2020..=2023
InFundingRangeFrom2020(p) == YearLo - 1 <= p.funding_year /\ p.funding_year <= YearHi

\* the year filter of parse_csv_records
InFundingRange(p) == YearLo <= p.funding_year /\ p.funding_year <= YearHi

\* fr.deserialize::<Project>().flatten(): a row that fails to deserialize is an
\* Err and flatten() yields nothing for it
Deserialized(rs) == SelectSeq(rs, LAMBDA r : r.wellformed)

\* parse_csv_records, once the file is open
parse_csv_records(rs) == SelectSeq(Deserialized(rs), InFundingRange)

---------------------------------------------------------------------------
(* Grouping: itertools' into_group_map_by builds a HashMap from key to the  *)
(* Vec of the group's records in input order.  A HashMap is iterated in an  *)
(* order that its per-process random hasher decides.                        *)

\* the grouping key of a record: one field, or the (year, type) pair of the
\* nested group maps of create_report_3
KeyOf(by, p) ==
    IF by = "year_type" THEN <<p.funding_year, p.type_of_work>> ELSE p[by]

GroupKeys(ps, by) == {KeyOf(by, ps[i]) : i \in 1..Len(ps)}

GroupOf(ps, by, key) == SelectSeq(ps, LAMBDA p : KeyOf(by, p) = key)

\* the group map: each key with its records, in input order
into_group_map_by(ps, by) == [key \in GroupKeys(ps, by) |-> GroupOf(ps, by, key)]

\* the keys in order of first occurrence
FirstOccurrence(ps, by) ==
    LET seen[k \in 0..Len(ps)] ==
            IF k = 0 THEN <<>>
            ELSE LET before == seen[k - 1]
                 IN  IF KeyOf(by, ps[k]) \in Range(before) THEN before
                     ELSE Append(before, KeyOf(by, ps[k]))
    IN  seen[Len(ps)]

Rotate(s, r) == [i \in 1..Len(s) |-> s[((i - 1 + r) % Len(s)) + 1]]

\* the iteration orders of a map whose keys are those of `base`: every order
\* for up to MaxShuffled keys, and beyond that `base` and its reverse, each
\* rotated by 0..MaxShuffled places
IterOrders(base) ==
    LET n == Len(base)
    IN  IF n <= MaxShuffled
        THEN {o \in [1..n -> Range(base)] : \A i, j \in 1..n : i # j => o[i] # o[j]}
        ELSE {Rotate(base, r) : r \in 0..MaxShuffled}
             \cup {Rotate(Reverse(base), r) : r \in 0..MaxShuffled}

---------------------------------------------------------------------------
(* Export: csv::Writer::from_path / File::create, serialize or write_all,   *)
(* flush.  A file record keeps the rows handed to the writer and how much   *)
(* of them reached the file: "absent" (never created), "partial" (created,  *)
(* and some prefix written before the error), "complete".                   *)

NoFile == [state |-> "absent", rows |-> <<>>]

\* the outcomes of one export
ExportOutcomes(old, rs) ==
    { [ok |-> TRUE,  file |-> [state |-> "complete", rows |-> rs]],
      [ok |-> FALSE, file |-> old],
      [ok |-> FALSE, file |-> [state |-> "partial", rows |-> rs]] }

\* an export step whose error is dropped instead of returned
ExportIgnoringErrors(step, f, rs, next) ==
    \E out \in ExportOutcomes(files[f], rs) :
        /\ files' = [files EXCEPT ![f] = out.file]
        /\ started' = Append(started, step)
        /\ pc' = next
        /\ ret' = IF next = "done" THEN "ok" ELSE "none"

\* one export step of main: `step` writes `rs` to file `f`; on success main goes
\* on to `next`, on an error the `?` returns it
Export(step, f, rs, next) ==
    \E out \in ExportOutcomes(files[f], rs) :
        /\ files' = [files EXCEPT ![f] = out.file]
        /\ started' = Append(started, step)
        /\ pc' = IF out.ok THEN next ELSE "done"
        /\ ret' = IF out.ok THEN (IF next = "done" THEN "ok" ELSE "none")
                  ELSE "err_" \o step

---------------------------------------------------------------------------
(* Report 1: regional efficiency. *)

\* the comparator of cost_savings.sort_by: ascending
ByValueAsc(a, b) == TotalCmp(a, b)

\* the comparator of region_efficiencies.sort_by: descending efficiency_score
ByEfficiencyDesc(a, b) == TotalCmp(b.efficiency_score, a.efficiency_score)

\* the comparator with its operands exchanged: descending total_cost
ByTotalCostDesc(a, b) == TotalCmp(b.total_cost, a.total_cost)

\* the comparator of contractor_performances.sort_by: ascending total_cost
ByTotalCostAsc(a, b) == TotalCmp(a.total_cost, b.total_cost)

\* the comparator of project_overrun_trends.sort_by: funding_year ascending,
\* then avg_savings descending
ByYearThenSavingsDesc(a, b) ==
    IF a.funding_year # b.funding_year
    THEN (IF a.funding_year < b.funding_year THEN -1 ELSE 1)
    ELSE TotalCmp(b.avg_savings, a.avg_savings)

\* the comparator closure named `by`
Compare(by, a, b) ==
    CASE by = "value_asc" -> ByValueAsc(a, b)
      [] by = "efficiency_desc" -> ByEfficiencyDesc(a, b)
      [] by = "total_cost_asc" -> ByTotalCostAsc(a, b)
      [] by = "year_then_savings_desc" -> ByYearThenSavingsDesc(a, b)

\* the step of a sort that is not stable: x goes before the elements it
\* compares equal to
InsertSortedUnstable(t, x, by) ==
    LET n == Cardinality({i \in 1..Len(t) : Compare(by, t[i], x) < 0})
    IN  SubSeq(t, 1, n) \o <<x>> \o SubSeq(t, n + 1, Len(t))

\* one step of a stable insertion sort: x goes after every element of the
\* sorted sequence t that does not compare greater than x
InsertSorted(t, x, by) ==
    LET n == Cardinality({i \in 1..Len(t) : Compare(by, t[i], x) <= 0})
    IN  SubSeq(t, 1, n) \o <<x>> \o SubSeq(t, n + 1, Len(t))

\* slice::sort_by, a stable sort, with the comparator named `by`
SortBy(s, by) ==
    LET sorted[k \in 0..Len(s)] ==
            IF k = 0 THEN <<>>
            ELSE LET before == sorted[k - 1]
                 IN  InsertSorted(before, s[k], by)
    IN  sorted[Len(s)]

\* the lower of the two middle elements: element (len - 1) / 2 counted from 0
median_savings_lower_middle(group) ==
    LET sorted == SortBy(cost_savings_of(group), "value_asc")
    IN  sorted[((Len(sorted) - 1) \div 2) + 1]

\* the median of create_report_1: element len / 2 (counted from 0) of the
\* ascending sort
median_savings(group) ==
    LET sorted == SortBy(cost_savings_of(group), "value_asc")
    IN  sorted[(Len(sorted) \div 2) + 1]

\* completion_delay_days summed as i64, divided as f64 by the group's length
avg_delay(group) ==
    FDiv(FromInt(SumSeq(completion_delay_days_of(group))), FromInt(Len(group)))

\* the share of the group's records with a delay over 30 days, in percent
high_delay_pct(group) ==
    LET days == completion_delay_days_of(group)
    IN  FMul(FDiv(FromInt(Cardinality({i \in 1..Len(days) : days[i] > HighDelayDays})),
                  FromInt(Len(days))),
             FromInt(100))

\* the RegionEfficiency pushed for one group
RegionEfficiency(region, group) ==
    [ region |-> region,
      main_island |-> group[1].main_island,
      total_budget |-> FSum([i \in 1..Len(group) |-> FromInt(group[i].approved_budget_for_contract)]),
      median_savings |-> median_savings(group),
      avg_delay |-> avg_delay(group),
      high_delay_pct |-> high_delay_pct(group),
      efficiency_score |->
          FMul(FDiv(median_savings(group), avg_delay(group)), FromInt(100)) ]

\* region_efficiencies as pushed, the groups taken in the order `order`
region_efficiencies_pushed(groups, order) ==
    [i \in 1..Len(order) |-> RegionEfficiency(order[i], groups[order[i]])]

\* region_efficiencies as written
region_efficiencies(groups, order) ==
    SortBy(region_efficiencies_pushed(groups, order), "efficiency_desc")

create_report_1 ==
    /\ pc = "r1"
    /\ LET groups == into_group_map_by(projects, "region")
       IN  \E order \in IterOrders(FirstOccurrence(projects, "region")) :
            /\ encounter' = order
            /\ Export("r1", "report1_regional_summary.csv",
                      region_efficiencies(groups, order), "r2")
    /\ call_accessors(1..Len(projects), 1..Len(projects))
    /\ UNCHANGED <<rows, nan_neg, projects, accounts, exchange_rates, console>>

---------------------------------------------------------------------------
(* Report 2: contractor ranking. *)

\* the skip written with <= in place of <
HasMoreThanMinProjects(group) == ~(Len(group) <= MinProjects)

\* groups with fewer than 5 records are skipped
HasEnoughProjects(group) == ~(Len(group) < MinProjects)

\* ((1 - avg_delay / 90) * (total_savings / total_cost) * 100).clamp(0, 100).abs()
reliability_idx(avg, total_savings, total_cost) ==
    FAbs(FClamp(FMul(FMul(FSub(FromInt(1), FDiv(avg, FromInt(DelayScale))),
                          FDiv(total_savings, total_cost)),
                     FromInt(100)),
                FromInt(0), FromInt(100)))

risk_flag(idx) == IF FLt(idx, FromInt(RiskThreshold)) THEN "High Risk" ELSE "Low Risk"

\* the ContractorPerformance pushed for one retained group
ContractorPerformance(contractor, group) ==
    LET total_cost == FSum([i \in 1..Len(group) |-> FromInt(group[i].contract_cost)])
        total_savings == FSum(cost_savings_of(group))
        idx == reliability_idx(avg_delay(group), total_savings, total_cost)
    IN  [ rank |-> 0,
          contractor |-> contractor,
          total_cost |-> total_cost,
          num_projects |-> Len(group),
          avg_delay |-> avg_delay(group),
          total_savings |-> total_savings,
          reliability_index |-> idx,
          risk_flag |-> risk_flag(idx) ]

\* contractor_performances as pushed, the groups taken in the order `order`
contractor_performances_pushed(groups, order) ==
    LET kept == SelectSeq(order, LAMBDA c : HasEnoughProjects(groups[c]))
    IN  [i \in 1..Len(kept) |-> ContractorPerformance(kept[i], groups[kept[i]])]

\* .into_iter().take(15).rev().collect()
TakeTopRev(v) == Reverse(Take(v, TopN))

\* rank = i + 1 over enumerate()
AssignRanks(v) == [i \in 1..Len(v) |-> [v[i] EXCEPT !.rank = i]]

\* contractor_performances as written
contractor_performances(groups, order) ==
    AssignRanks(TakeTopRev(SortBy(contractor_performances_pushed(groups, order), "total_cost_asc")))

create_report_2 ==
    /\ pc = "r2"
    /\ LET groups == into_group_map_by(projects, "contractor")
       IN  \E order \in IterOrders(FirstOccurrence(projects, "contractor")) :
            Export("r2", "report2_contractor_ranking.csv",
                   contractor_performances(groups, order), "r3")
    /\ \E kept \in {{i \in 1..Len(projects) :
                        HasEnoughProjects(GroupOf(projects, "contractor", projects[i].contractor))}} :
            call_accessors(kept, kept)
    /\ UNCHANGED <<rows, nan_neg, projects, encounter, accounts, exchange_rates, console>>

---------------------------------------------------------------------------
(* Report 3: annual trends. *)

\* the orders the nested loops can take the (year, type) groups in: the groups
\* of one year come together
NestedIterOrders(ps) ==
    {o \in IterOrders(FirstOccurrence(ps, "year_type")) :
        \A i, j, k \in 1..Len(o) :
            (i < j /\ j < k /\ o[i][1] = o[k][1]) => o[j][1] = o[i][1]}

\* the ProjectOverrunTrend pushed for one group
ProjectOverrunTrend(key, group) ==
    LET savings == cost_savings_of(group)
    IN  [ funding_year |-> key[1],
          type_of_work |-> key[2],
          total_projects |-> Len(group),
          avg_savings |-> FDiv(FSum(savings), FromInt(Len(savings))),
          overrun_rate |->
              FMul(FDiv(FromInt(Cardinality({i \in 1..Len(savings) : FLt(savings[i], FromInt(0))})),
                        FromInt(Len(savings))),
                   FromInt(100)),
          year_over_year_change |-> FromInt(0) ]

\* trend_avg_savings: (funding_year, avg_savings) collected into a HashMap keyed
\* by the year alone, so a later row of a year replaces an earlier one
trend_avg_savings(trends) ==
    [y \in {trends[i].funding_year : i \in 1..Len(trends)} |->
        LET last == CHOOSE i \in 1..Len(trends) :
                        /\ trends[i].funding_year = y
                        /\ \A j \in 1..Len(trends) : trends[j].funding_year = y => j <= i
        IN  trends[last].avg_savings]

\* the loop body that sets year_over_year_change
WithYoYChange(trend, prev) ==
    IF trend.funding_year <= YoYMaxYear /\ (trend.funding_year - 1) \in DOMAIN prev
    THEN [trend EXCEPT !.year_over_year_change =
            FMul(FDiv(FSub(trend.avg_savings, prev[trend.funding_year - 1]),
                      prev[trend.funding_year - 1]),
                 FromInt(100))]
    ELSE trend

\* project_overrun_trends as written
project_overrun_trends(groups, order) ==
    LET pushed == [i \in 1..Len(order) |-> ProjectOverrunTrend(order[i], groups[order[i]])]
        sorted == SortBy(pushed, "year_then_savings_desc")
        prev == trend_avg_savings(sorted)
    IN  [i \in 1..Len(sorted) |-> WithYoYChange(sorted[i], prev)]

create_report_3 ==
    /\ pc = "r3"
    /\ LET groups == into_group_map_by(projects, "year_type")
       IN  \E order \in NestedIterOrders(projects) :
            Export("r3", "report3_annual_trends.csv",
                   project_overrun_trends(groups, order), "summary")
    /\ call_accessors(1..Len(projects), {})
    /\ UNCHANGED <<rows, nan_neg, projects, encounter, accounts, exchange_rates, console>>

---------------------------------------------------------------------------
(* Summary. *)

\* a Summary whose total_contractors counts a contractor once for each of
\* its records
SummaryCountingRecords(ps) ==
    [ total_projects |-> Len(ps),
      total_contractors |-> Len(ps),
      global_avg_delay |-> avg_delay(ps),
      total_savings |-> FSum(cost_savings_of(ps)) ]

\* the Summary that create_summary serializes
Summary(ps) ==
    [ total_projects |-> Len(ps),
      total_contractors |-> Cardinality(GroupKeys(ps, "contractor")),
      global_avg_delay |-> avg_delay(ps),
      total_savings |-> FSum(cost_savings_of(ps)) ]

create_summary ==
    /\ pc = "summary"
    /\ Export("summary", "summary.json", <<Summary(projects)>>, "done")
    /\ call_accessors(1..Len(projects), 1..Len(projects))
    /\ UNCHANGED <<rows, nan_neg, projects, encounter, accounts, exchange_rates, console>>

---------------------------------------------------------------------------
(* main. *)

\* main without its early return
never_empty(ps) == FALSE

\* projects.is_empty()
is_empty(ps) == ps = <<>>

\* main up to its first export: parse_csv_records fails when the file cannot
\* be opened; an empty result returns Ok(()) at once
load_projects ==
    /\ pc = "start"
    /\ \E opened \in BOOLEAN :
        IF ~opened
        THEN /\ projects' = <<>>
             /\ cache' = NewCache(<<>>)
             /\ calls' = NoCalls(<<>>)
             /\ pc' = "done"
             /\ ret' = "err_source"
        ELSE /\ projects' = parse_csv_records(rows)
             /\ cache' = NewCache(parse_csv_records(rows))
             /\ calls' = NoCalls(parse_csv_records(rows))
             /\ pc' = IF is_empty(parse_csv_records(rows)) THEN "done" ELSE "r1"
             /\ ret' = IF is_empty(parse_csv_records(rows)) THEN "ok" ELSE "none"
    /\ UNCHANGED <<rows, nan_neg, started, encounter, files, accounts, exchange_rates, console>>

\* main's next step
Next ==
    \/ load_projects
    \/ create_report_1
    \/ create_report_2
    \/ create_report_3
    \/ create_summary

---------------------------------------------------------------------------
(* The banking program (rust/mco1/src/main.rs).  Amounts and rates are      *)
(* small whole numbers, on which f64 arithmetic is exact.                   *)

CURRENCIES_CODES == <<"PHP", "USD", "JPY", "GBP", "EUR", "CNY">>

\* main's loop over CURRENCIES_CODES.iter().skip(1): every foreign rate is 1.0
InitialRates == [c \in {CURRENCIES_CODES[i] : i \in 2..Len(CURRENCIES_CODES)} |-> 1]

\* what the user may type
Names == {"ana", "bob"}

TypedCurrencies == {"PHP", "USD", "XXX"}

Amounts == {0, 10}

Rates == {1, 2}

\* Account::new
AccountNew(name) == [name |-> name, balance |-> 0, currency |-> "PHP"]

\* accounts.contains(&account): Account derives PartialEq, which compares
\* name, balance and currency
Contains(list, account) == \E i \in 1..Len(list) : list[i] = account

\* currency::convert
convert(amount, src, dest, rates) ==
    LET src_php_amount == IF src = "PHP" THEN amount ELSE amount * rates[src]
    IN  IF dest = "PHP" THEN src_php_amount ELSE src_php_amount * rates[dest]

\* accounts.iter().find(|a| a.name == prompt("Account Name: ")): the prompt is
\* inside the closure, so a name is typed for each account looked at;
\* typed[i] is the name typed for the i-th account.  The position found, or 0.
Find(typed) ==
    LET hits == {i \in 1..Len(accounts) : typed[i] = accounts[i].name}
    IN  IF hits = {} THEN 0 ELSE CHOOSE i \in hits : \A j \in hits : i <= j

\* the rest of every transaction of the menu
Transacted ==
    /\ pc = "menu"
    /\ pc' = "back"
    /\ UNCHANGED <<rows, nan_neg, projects, ret, started, encounter, files, cache, calls>>

\* transaction 1, Register Account Name
register_account ==
    /\ Transacted
    /\ \E name \in Names :
        IF ~Contains(accounts, AccountNew(name))
        THEN /\ Len(accounts) < MaxAccounts
             /\ accounts' = Append(accounts, AccountNew(name))
             /\ console' = "Register Account Name"
        ELSE /\ accounts' = accounts
             /\ console' = "An account with this name already exists!"
    /\ UNCHANGED exchange_rates

\* transaction 2, Account::deposit_balance on the account found
deposit_balance ==
    /\ Transacted
    /\ \E typed \in [1..Len(accounts) -> Names], currency \in TypedCurrencies,
          parsed \in BOOLEAN, amount \in Amounts :
        LET i == Find(typed)
        IN  IF i = 0
            THEN /\ console' = "No account with this name exists!"
                 /\ accounts' = accounts
            ELSE IF currency \notin Range(CURRENCIES_CODES)
            THEN /\ console' = "No currency with this code exists!"
                 /\ accounts' = accounts
            ELSE IF ~parsed
            THEN /\ console' = "Deposit amount must be a floating point number!"
                 /\ accounts' = accounts
            ELSE /\ accounts[i].balance + convert(amount, currency, "PHP", exchange_rates)
                        <= MaxBalance
                 /\ accounts' = [accounts EXCEPT ![i].balance =
                                    @ + convert(amount, currency, "PHP", exchange_rates)]
                 /\ console' = "Updated Balance"
    /\ UNCHANGED exchange_rates

\* transaction 3, Account::withdraw_balance on the account found
withdraw_balance ==
    /\ Transacted
    /\ \E typed \in [1..Len(accounts) -> Names], currency \in TypedCurrencies,
          parsed \in BOOLEAN, amount \in Amounts :
        LET i == Find(typed)
        IN  IF i = 0
            THEN /\ console' = "No account with this name exists!"
                 /\ accounts' = accounts
            ELSE IF currency \notin Range(CURRENCIES_CODES)
            THEN /\ console' = "No currency with this code exists!"
                 /\ accounts' = accounts
            ELSE IF ~parsed
            THEN /\ console' = "Withdraw amount must be a floating point number!"
                 /\ accounts' = accounts
            ELSE IF accounts[i].balance - convert(amount, currency, "PHP", exchange_rates) < 0
            THEN /\ console' = "Withdraw amount must be less than the current balance!"
                 /\ accounts' = accounts
            ELSE /\ accounts' = [accounts EXCEPT ![i].balance =
                                    @ - convert(amount, currency, "PHP", exchange_rates)]
                 /\ console' = "Updated Balance"
    /\ UNCHANGED exchange_rates

\* transaction 4, currency::exchange, as often as the user answers Y.  The
\* typed ids have 1 subtracted as usize: for a typed 0 that panics in a build
\* with overflow checks and wraps to an id that is too large in one without.
exchange ==
    /\ pc = "menu"
    /\ \E src \in {0, 1, 7}, dest \in {0, 1, 7}, parsed \in BOOLEAN, checked \in BOOLEAN :
        IF parsed /\ checked /\ (src = 0 \/ (src <= Len(CURRENCIES_CODES) /\ dest = 0))
        THEN /\ pc' = "panicked"
             /\ console' = "attempt to subtract with overflow"
        ELSE /\ pc' = "back"
             /\ console' =
                    IF ~parsed THEN "ID must be a positive whole number (integer)!"
                    ELSE IF src = 0 \/ src > Len(CURRENCIES_CODES)
                            \/ dest = 0 \/ dest > Len(CURRENCIES_CODES)
                    THEN "No currency with this ID exists!"
                    ELSE "Exchange Amount"
    /\ UNCHANGED <<accounts, exchange_rates>>
    /\ UNCHANGED <<rows, nan_neg, projects, ret, started, encounter, files, cache, calls>>

\* transaction 5, currency::set_exchange_rates: the typed id indexes
\* CURRENCIES_CODES from 0
set_exchange_rates ==
    /\ Transacted
    /\ \E idx \in {0, 1, 6}, parsed \in BOOLEAN, rate \in Rates :
        IF ~parsed
        THEN /\ console' = "ID must be a positive whole number (integer)!"
             /\ exchange_rates' = exchange_rates
        ELSE IF idx >= Len(CURRENCIES_CODES)
        THEN /\ console' = "No currency with this ID exists!"
             /\ exchange_rates' = exchange_rates
        ELSE /\ console' = "Record Exchange Rates"
             /\ exchange_rates' =
                    [c \in DOMAIN exchange_rates \cup {CURRENCIES_CODES[idx + 1]} |->
                        IF c = CURRENCIES_CODES[idx + 1] THEN rate ELSE exchange_rates[c]]
    /\ UNCHANGED accounts

\* transaction 6, Account::calculate_interest on the account found
calculate_interest ==
    /\ Transacted
    /\ \E typed \in [1..Len(accounts) -> Names], parsed \in BOOLEAN :
        console' = IF Find(typed) = 0 THEN "No account with this name exists!"
                   ELSE IF ~parsed THEN "Number must be a positive whole number (integer)!"
                   ELSE "Day | Interest | Balance |"
    /\ UNCHANGED <<accounts, exchange_rates>>

\* any other choice
no_transaction ==
    /\ Transacted
    /\ console' = "No transaction with this ID exists!"
    /\ UNCHANGED <<accounts, exchange_rates>>

\* the Back to the Main Menu prompt, until the answer is Y or N
back_to_menu ==
    /\ pc = "back"
    /\ \E answer \in {"Y", "N", "?"} :
        /\ pc' = IF answer = "Y" THEN "menu" ELSE IF answer = "N" THEN "exited" ELSE "back"
        /\ console' = IF answer \in {"Y", "N"} THEN console
                      ELSE "Only accepting a [Y]es or [N]o answer!"
    /\ UNCHANGED <<accounts, exchange_rates>>
    /\ UNCHANGED <<rows, nan_neg, projects, ret, started, encounter, files, cache, calls>>

\* the banking program's main loop
BankNext ==
    \/ register_account
    \/ deposit_balance
    \/ withdraw_balance
    \/ exchange
    \/ set_exchange_rates
    \/ calculate_interest
    \/ no_transaction
    \/ back_to_menu

---------------------------------------------------------------------------
(* Inputs. *)

\* a csv row: the fields the reports read, and whether every field of the row
\* deserializes
Row(wf, year, region, contractor, type, budget, cost, delay) ==
    [ wellformed |-> wf,
      funding_year |-> year,
      region |-> region,
      main_island |-> "Luzon",
      contractor |-> contractor,
      type_of_work |-> type,
      approved_budget_for_contract |-> budget,
      contract_cost |-> cost,
      start_date |-> 0,
      actual_completion_date |-> delay ]

SeqUpTo(S, n) == UNION {[1..k -> S] : k \in 0..n}

\* rows of the csv file: well-formed rows of two contractors at the years
\* around both ends of the filter, and malformed rows in and out of its range
MainYears == {2020, 2021, 2023, 2024}

MainRows ==
    {Row(TRUE, y, "Region I", "A", "Dike", 30, 10, 10) : y \in MainYears}
    \cup {Row(TRUE, y, "Region II", "B", "Drainage", 10, 10, 40) : y \in MainYears}
    \cup {Row(FALSE, 2022, "Region I", "A", "Dike", 30, 10, 10),
          Row(FALSE, 2024, "Region II", "B", "Drainage", 10, 10, 40)}

\* inputs of create_report_1: one region with up to MaxMedianRecs records of
\* savings 10, 20, 30 or 40, and up to MaxSortRecs records over three regions
\* whose scores are 100, 200, NaN (0 / 0) and what medians and means of these
\* records give
MedianRecs == {Row(TRUE, 2021, "Region I", "A", "Dike", b, 0, 10) : b \in {10, 20, 30, 40}}

SortRecs ==
    {Row(TRUE, 2021, r, "A", "Dike", t[1], 10, t[2]) :
        r \in {"Region I", "Region II", "Region III"},
        t \in {<<20, 10>>, <<30, 10>>, <<10, 0>>}}

Report1Inputs == SeqUpTo(MedianRecs, MaxMedianRecs) \cup SeqUpTo(SortRecs, MaxSortRecs)

\* inputs of create_report_2.  Ranking inputs: n contractors, contractor i with
\* 5 records (6 when i is a multiple of 3, 4 when i = short), each record of
\* contractor i costing PatternCost(pattern, n, i).  Reliability inputs: one
\* contractor with 5 records, the first drawn apart from the other four.
ContractorNames ==
    << "C01", "C02", "C03", "C04", "C05", "C06", "C07", "C08", "C09", "C10",
       "C11", "C12", "C13", "C14", "C15", "C16", "C17", "C18", "C19", "C20" >>

PatternCost(pattern, n, i) ==
    CASE pattern = "ascending" -> i
      [] pattern = "descending" -> n + 1 - i
      [] pattern = "flat" -> 1
      [] OTHER -> (i * 7) % 5

RankingCount(short, i) ==
    IF i = short THEN MinProjects - 1
    ELSE IF i % 3 = 0 THEN MinProjects + 1 ELSE MinProjects

RECURSIVE RankingInput(_, _, _, _)
RankingInput(pattern, n, short, i) ==
    IF i > n THEN <<>>
    ELSE [j \in 1..RankingCount(short, i) |->
            Row(TRUE, 2021, "Region I", ContractorNames[i], "Dike",
                PatternCost(pattern, n, i) + (i % 2), PatternCost(pattern, n, i), 0)]
         \o RankingInput(pattern, n, short, i + 1)

RankingInputs ==
    {RankingInput(pattern, n, short, 1) :
        pattern \in {"ascending", "descending", "flat", "mixed"},
        n \in 0..MaxContractors,
        short \in {0, 1, MaxContractors - 1}}

ReliabilityRecs ==
    {Row(TRUE, 2021, "Region I", "A", "Dike", b, c, d) :
        b \in {0, 10, 20, 30}, c \in {0, 10}, d \in {0, 45, 90, 180}}

ReliabilityInputs ==
    {<<first>> \o [j \in 1..(MinProjects - 1) |-> rest] :
        first \in ReliabilityRecs, rest \in ReliabilityRecs}

Report2Inputs == RankingInputs \cup ReliabilityInputs

\* inputs of create_report_3: up to MaxTrendRecs records over three years and
\* two types of work, with savings 0 or 10
TrendRecs ==
    {Row(TRUE, y, "Region I", "A", t, b, 10, 10) :
        y \in {2020, 2021, 2022}, t \in {"Dike", "Drainage"}, b \in {10, 20}}

Report3Inputs == SeqUpTo(TrendRecs, MaxTrendRecs)

\* inputs of the three reports run one after the other: up to
\* MaxDegenerateGroups groups, group g being 5 equal records of its own region
\* and contractor, the first group of 2020 and the others of 2021, with
\* (budget, cost, delay) drawn so that a group has no zero among its delay,
\* cost and savings, or a zero delay and cost, or all three zero
GroupRegions == <<"Region I", "Region II", "Region III">>

GroupTypes == <<"Dike", "Drainage", "Dike">>

GroupFigures ==
    {<<20, 10, 10>>, <<20, 0, 0>>, <<0, 0, 0>>}

GroupRecord(g, t) ==
    Row(TRUE, IF g = 1 THEN 2020 ELSE 2021, GroupRegions[g], ContractorNames[g],
        GroupTypes[g], t[1], t[2], t[3])

DegenerateInput(figures) ==
    [i \in 1..(MinProjects * Len(figures)) |->
        GroupRecord(((i - 1) \div MinProjects) + 1, figures[((i - 1) \div MinProjects) + 1])]

DegenerateInputs ==
    {DegenerateInput(figures) :
        figures \in UNION {[1..k -> GroupFigures] : k \in 1..MaxDegenerateGroups}}

---------------------------------------------------------------------------
(* Specifications. *)

NoFiles == [f \in FileNames |-> NoFile]

\* a state in which main, or a caller of one report generator, is at `at`
\* holding the records `ps`
StartAt(at, rs, ps) ==
    /\ rows = rs
    /\ nan_neg \in BOOLEAN
    /\ projects = ps
    /\ pc = at
    /\ ret = "none"
    /\ started = <<>>
    /\ encounter = <<>>
    /\ files = NoFiles
    /\ cache = NewCache(ps)
    /\ calls = NoCalls(ps)
    /\ accounts = <<>>
    /\ exchange_rates = InitialRates
    /\ console = ""

\* the program: main over the csv file
Init == \E rs \in SeqUpTo(MainRows, MaxRows) : StartAt("start", rs, <<>>)

Spec == Init /\ [][Next]_vars

\* create_report_1 applied to a slice of records
InitReport1 == \E ps \in Report1Inputs : StartAt("r1", <<>>, ps)

SpecReport1 == InitReport1 /\ [][create_report_1]_vars

\* create_report_2 applied to a slice of records
InitReport2 == \E ps \in Report2Inputs : StartAt("r2", <<>>, ps)

SpecReport2 == InitReport2 /\ [][create_report_2]_vars

\* create_report_3 applied to a slice of records
InitReport3 == \E ps \in Report3Inputs : StartAt("r3", <<>>, ps)

SpecReport3 == InitReport3 /\ [][create_report_3]_vars

\* the three report generators applied one after the other, as main applies
\* them, to records among which a denominator is zero
InitDegenerate == \E ps \in DegenerateInputs : StartAt("r1", <<>>, ps)

NextReports == create_report_1 \/ create_report_2 \/ create_report_3

SpecDegenerate == InitDegenerate /\ [][NextReports]_vars

\* the banking program
InitBank == StartAt("menu", <<>>, <<>>)

SpecBank == InitBank /\ [][BankNext]_vars

---------------------------------------------------------------------------
(* Properties of main (checked under Spec). *)

Report1File == files["report1_regional_summary.csv"]
Report2File == files["report2_contractor_ranking.csv"]
Report3File == files["report3_annual_trends.csv"]
SummaryFile == files["summary.json"]

\* parse_csv_records has returned Ok
Loaded == pc # "start" /\ ret # "err_source"

\* the positions of the csv rows that deserialize and whose year is 2021, 2022
\* or 2023
GoodRowIdx ==
    {i \in 1..Len(rows) : rows[i].wellformed /\ rows[i].funding_year \in {2021, 2022, 2023}}

\* those rows, in file order
GoodRows ==
    [j \in 1..Cardinality(GoodRowIdx) |->
        rows[CHOOSE i \in GoodRowIdx : Cardinality({k \in GoodRowIdx : k < i}) = j - 1]]

\* C1: once parse_csv_records has returned, the records are exactly the
\* well-formed rows with funding_year in 2021..2023, in file order: none out
\* of range or malformed is kept, none in range is missing
C1_FilteredRecords ==
    Loaded =>
        /\ \A i \in 1..Len(projects) :
            /\ projects[i].wellformed
            /\ 2021 <= projects[i].funding_year
            /\ projects[i].funding_year <= 2023
        /\ Len(projects) = Cardinality(GoodRowIdx)
        /\ projects = GoodRows

\* C1 witness: a file with a malformed row in range and a well-formed row out
\* of range was read without failing, and kept its 2021 row and its 2023 row
C1_Witness ==
    /\ Loaded
    /\ \E i \in 1..Len(rows) : ~rows[i].wellformed /\ rows[i].funding_year = 2022
    /\ \E i \in 1..Len(rows) : rows[i].wellformed /\ rows[i].funding_year = 2024
    /\ Len(projects) = 1
    /\ projects[1].funding_year = 2023

\* C5: when the filtered record set is empty the run returns success, no
\* export step was started and none of the four files was created
C5_EmptyRunWritesNothing ==
    (Loaded /\ GoodRowIdx = {}) =>
        /\ pc = "done"
        /\ ret = "ok"
        /\ started = <<>>
        /\ \A f \in FileNames : files[f] = NoFile

\* C5 witness: a file that has rows, none of which survives the filter
C5_Witness ==
    /\ Loaded
    /\ Len(rows) = MaxRows
    /\ GoodRowIdx = {}
    /\ ret = "ok"

ExportSteps == <<"r1", "r2", "r3", "summary">>

StepFile(step) ==
    CASE step = "r1" -> "report1_regional_summary.csv"
      [] step = "r2" -> "report2_contractor_ranking.csv"
      [] step = "r3" -> "report3_annual_trends.csv"
      [] step = "summary" -> "summary.json"

\* the export steps run in the fixed order; a failed step's error is what main
\* returns, the run is over and nothing more can start; every step before the
\* failed one wrote its file completely, and the failed one did not
ExportOrderAndFailure ==
    /\ \E n \in 0..4 : started = SubSeq(ExportSteps, 1, n)
    /\ ret # "none" => (pc = "done" /\ ~ENABLED Next)
    /\ \A n \in 1..Len(started) :
        /\ n < Len(started) => files[StepFile(started[n])].state = "complete"
        /\ (n = Len(started) /\ ret \notin {"none", "ok"}) =>
                /\ ret = "err_" \o started[n]
                /\ files[StepFile(started[n])].state # "complete"
    /\ \A f \in FileNames : files[f].state # "absent" =>
            \E n \in 1..Len(started) : StepFile(started[n]) = f

\* C9 as stated: ... and the run returns success only when all four outputs
\* were completely written
C9_AsStated ==
    /\ ExportOrderAndFailure
    /\ ret = "ok" => \A f \in FileNames : files[f].state = "complete"

\* C9 as amended: ... and a run over a non-empty record set returns success
\* only when all four outputs were completely written; the run over an empty
\* record set returns success having written none.  No run returns success
\* with a file that holds part of its rows.
C9_ExportsAllOrError ==
    /\ ExportOrderAndFailure
    /\ ret = "ok" =>
        \/ /\ started = ExportSteps
           /\ \A f \in FileNames : files[f].state = "complete"
        \/ /\ projects = <<>>
           /\ started = <<>>
           /\ \A f \in FileNames : files[f].state = "absent"

\* C9 witness: report 1 was written, report 2 failed part-way, the run ended
\* with that error and reports 3 and the summary were never started
C9_Witness ==
    /\ started = <<"r1", "r2">>
    /\ ret = "err_r2"
    /\ Report1File.state = "complete"
    /\ Report2File.state = "partial"
    /\ Report3File.state = "absent"
    /\ SummaryFile.state = "absent"

---------------------------------------------------------------------------
(* Properties of create_report_2 (checked under SpecReport2). *)

Contractors == {projects[i].contractor : i \in 1..Len(projects)}

\* the number of records of contractor c
RecordCount(c) == Cardinality({i \in 1..Len(projects) : projects[i].contractor = c})

\* the sum of contract_cost over the records of contractor c
TotalCost(c) ==
    LET upto[k \in 0..Len(projects)] ==
            IF k = 0 THEN 0
            ELSE upto[k - 1]
                 + (IF projects[k].contractor = c THEN projects[k].contract_cost ELSE 0)
    IN  upto[Len(projects)]

\* the contractors with at least 5 records
Qualifying == {c \in Contractors : RecordCount(c) >= 5}

\* the rows of a completely written report 2
Ranking == Report2File.rows

Ranked == {Ranking[i].contractor : i \in 1..Len(Ranking)}

\* the total cost of every contractor
TotalCosts == [c \in Contractors |-> TotalCost(c)]

\* C2: a written contractor ranking has min(15, n) rows, one per contractor,
\* all qualifying; no qualifying contractor left out costs less than one that
\* is in; total_cost does not increase down the rows; the ranks are 1, 2, ...
C2_LowestFifteenDescending ==
    Report2File.state = "complete" =>
        LET cost == TotalCosts
            q == Qualifying
            out == q \ Ranked
        IN  /\ Len(Ranking) <= 15
            /\ Len(Ranking) = (IF Cardinality(q) < 15 THEN Cardinality(q) ELSE 15)
            /\ Ranked \subseteq q
            /\ Cardinality(Ranked) = Len(Ranking)
            /\ \A i \in 1..Len(Ranking) :
                /\ Ranking[i].total_cost = Fin(cost[Ranking[i].contractor], 1)
                /\ Ranking[i].rank = i
                /\ \A c \in out : cost[c] >= cost[Ranking[i].contractor]
            /\ \A i \in 1..(Len(Ranking) - 1) :
                cost[Ranking[i].contractor] >= cost[Ranking[i + 1].contractor]

\* C2 witness: more than 15 contractors qualify, one left out costs more than
\* one that is ranked, and the first row costs more than the last
C2_Witness ==
    /\ Report2File.state = "complete"
    /\ Len(Ranking) = 15
    /\ Cardinality(Qualifying) > 15
    /\ \E c \in Qualifying \ Ranked : TotalCost(c) > TotalCost(Ranking[1].contractor)
    /\ TotalCost(Ranking[1].contractor) > TotalCost(Ranking[15].contractor)

\* C3: a contractor with fewer than 5 records is in no row; a contractor with
\* exactly 5 records is ranked whenever at most 15 qualifying contractors cost
\* no more than it does; num_projects of every row is the contractor's record
\* count and is at least 5
C3_FiveRecordThreshold ==
    Report2File.state = "complete" =>
        LET cost == TotalCosts
            count == [c \in Contractors |-> RecordCount(c)]
            q == {c \in Contractors : count[c] >= 5}
        IN  /\ \A c \in Contractors : count[c] < 5 => c \notin Ranked
            /\ \A c \in Contractors :
                (/\ count[c] = 5
                 /\ Cardinality({c2 \in q : cost[c2] <= cost[c]}) <= 15)
                    => c \in Ranked
            /\ \A i \in 1..Len(Ranking) :
                /\ Ranking[i].num_projects >= 5
                /\ Ranking[i].num_projects = count[Ranking[i].contractor]

\* C3 witness: a contractor with 4 records that costs less than every ranked
\* contractor is left out, and one with exactly 5 records is ranked
C3_Witness ==
    /\ Report2File.state = "complete"
    /\ Len(Ranking) > 0
    /\ \E c \in Contractors :
        /\ RecordCount(c) = 4
        /\ c \notin Ranked
        /\ \A i \in 1..Len(Ranking) : TotalCost(c) < TotalCost(Ranking[i].contractor)
    /\ \E i \in 1..Len(Ranking) : Ranking[i].num_projects = 5

\* 0 <= x <= 100 for a finite x
InZeroToHundred(x) == x.k = "fin" /\ 0 <= x.n /\ x.n <= 100 * x.d

\* C8 as stated: every row's reliability index lies in [0, 100], and its risk
\* flag is "High Risk" exactly when the index is below 50, "Low Risk" otherwise
C8_ReliabilityInRange ==
    Report2File.state = "complete" =>
        \A i \in 1..Len(Ranking) :
            /\ InZeroToHundred(Ranking[i].reliability_index)
            /\ Ranking[i].risk_flag \in {"High Risk", "Low Risk"}
            /\ Ranking[i].risk_flag = "High Risk"
                <=> (/\ Ranking[i].reliability_index.k = "fin"
                     /\ Ranking[i].reliability_index.n < 50 * Ranking[i].reliability_index.d)

---------------------------------------------------------------------------
(* Properties of create_report_1 (checked under SpecReport1). *)

Regions == {projects[i].region : i \in 1..Len(projects)}

\* the positions of the records of region r
RegionIdx(r) == {i \in 1..Len(projects) : projects[i].region = r}

\* approved budget minus contract cost of record i
SavingsAt(i) == projects[i].approved_budget_for_contract - projects[i].contract_cost

\* the k-th smallest, counted from 1 and with repetitions, of the savings of the
\* records at the positions I
KthSmallestSavings(I, k) ==
    CHOOSE v \in {SavingsAt(i) : i \in I} :
        /\ Cardinality({i \in I : SavingsAt(i) < v}) < k
        /\ k <= Cardinality({i \in I : SavingsAt(i) <= v})

\* the rows of report 1
Efficiency == Report1File.rows

\* C4 as stated: the median of a group of even size n is the n/2-th smallest
\* value (the lower of the two middle ones); of a group of size 1, its value
C4_LowerMiddle ==
    Report1File.state = "complete" =>
        \A i \in 1..Len(Efficiency) :
            LET I == RegionIdx(Efficiency[i].region)
                n == Cardinality(I)
            IN  /\ n % 2 = 0 =>
                    Efficiency[i].median_savings = Fin(KthSmallestSavings(I, n \div 2), 1)
                /\ n = 1 =>
                    Efficiency[i].median_savings = Fin(KthSmallestSavings(I, 1), 1)

\* C4 as amended: the median of a group of size n is the (n/2 + 1)-th smallest
\* value, n/2 rounded down: for an even n the upper of the two middle ones
\* (30 for 10, 20, 30, 40); for a group of size 1, its value
C4_UpperMiddle ==
    Report1File.state = "complete" =>
        \A i \in 1..Len(Efficiency) :
            LET I == RegionIdx(Efficiency[i].region)
                n == Cardinality(I)
            IN  /\ Efficiency[i].median_savings = Fin(KthSmallestSavings(I, (n \div 2) + 1), 1)
                /\ n = 1 =>
                    Efficiency[i].median_savings = Fin(KthSmallestSavings(I, 1), 1)

\* C4 witness: a region whose four records save 40, 10, 30 and 20 has the
\* median 30
C4_Witness ==
    /\ Report1File.state = "complete"
    /\ Len(projects) = 4
    /\ [i \in 1..4 |-> SavingsAt(i)] = <<40, 10, 30, 20>>
    /\ Len(Efficiency) = 1
    /\ Efficiency[1].median_savings = Fin(30, 1)

\* the place of key in the sequence of keys s
PlaceIn(s, key) == CHOOSE i \in 1..Len(s) : s[i] = key

---------------------------------------------------------------------------
(* Properties of create_report_3 (checked under SpecReport3). *)

\* the rows of report 3
Trends == Report3File.rows

\* some record has the type of work of the row t and the year before its year
HasSameTypePredecessor(t) ==
    \E i \in 1..Len(projects) :
        /\ projects[i].type_of_work = t.type_of_work
        /\ projects[i].funding_year = t.funding_year - 1

---------------------------------------------------------------------------
(* Properties of the reports on zero denominators (checked under           *)
(* SpecDegenerate).                                                         *)

\* the records whose key is not `key`
Without(ps, by, key) == SelectSeq(ps, LAMBDA p : KeyOf(by, p) # key)

\* the rows of each report for the records ps, as a set; the rank, which
\* counts the rows before a row, is left out of the rows of report 2
Report1Rows(ps) ==
    Range(region_efficiencies(into_group_map_by(ps, "region"),
                              FirstOccurrence(ps, "region")))

Report2Rows(ps) ==
    {[r EXCEPT !.rank = 0] :
        r \in Range(contractor_performances(into_group_map_by(ps, "contractor"),
                                            FirstOccurrence(ps, "contractor")))}

Report3Rows(ps) ==
    Range(project_overrun_trends(into_group_map_by(ps, "year_type"),
                                 FirstOccurrence(ps, "year_type")))

\* the region's delays add up to 0
ZeroMeanDelay(region) ==
    SumSeq(completion_delay_days_of(GroupOf(projects, "region", region))) = 0

\* the contractor has at least 5 records and their costs add up to 0
ZeroTotalCost(contractor) ==
    LET group == GroupOf(projects, "contractor", contractor)
    IN  /\ Len(group) >= 5
        /\ SumSeq([i \in 1..Len(group) |-> group[i].contract_cost]) = 0

\* the group's year is 2021 or before, and the records of the year before
\* exist and their savings add up to 0
ZeroPredecessorSavings(key) ==
    LET before == SelectSeq(projects, LAMBDA p : p.funding_year = key[1] - 1)
    IN  /\ key[1] <= 2021
        /\ Len(before) > 0
        /\ SumSeq([i \in 1..Len(before) |->
                    before[i].approved_budget_for_contract - before[i].contract_cost]) = 0

NotFinite(x) == x.k \in {"pinf", "ninf", "nan"}

\* the export of the rows rs to the file f has an outcome in which the file
\* is written, with one row for each group of the records
WritesRowPerGroup(f, by, rs) ==
    \E out \in ExportOutcomes(files[f], rs) :
        /\ out.ok
        /\ out.file.state = "complete"
        /\ Len(out.file.rows) = Cardinality(GroupKeys(projects, by))

\* C10: a zero denominator stops no report.  Each generator that is called
\* can run to the end, writing a row for each group; when it has returned
\* (main is at the next call), a region whose mean delay is 0 has a row whose
\* efficiency_score is an infinity or NaN, a contractor whose total cost is 0
\* a row whose reliability_index is 0, 100 or NaN, a trend group whose
\* predecessor's mean savings is 0 a row whose year_over_year_change is an
\* infinity or NaN; and the other rows are those of the report on the records
\* without that group
C10_ZeroDenominatorsAbsorbed ==
    /\ pc = "r1" =>
        \E order \in IterOrders(FirstOccurrence(projects, "region")) :
            WritesRowPerGroup("report1_regional_summary.csv", "region",
                region_efficiencies(into_group_map_by(projects, "region"), order))
    /\ pc = "r2" =>
        \E order \in IterOrders(FirstOccurrence(projects, "contractor")) :
            WritesRowPerGroup("report2_contractor_ranking.csv", "contractor",
                contractor_performances(into_group_map_by(projects, "contractor"), order))
    /\ pc = "r3" =>
        \E order \in NestedIterOrders(projects) :
            WritesRowPerGroup("report3_annual_trends.csv", "year_type",
                project_overrun_trends(into_group_map_by(projects, "year_type"), order))
    /\ pc = "r2" =>
        \A g \in GroupKeys(projects, "region") :
            ZeroMeanDelay(g) =>
                /\ \E r \in Range(Report1File.rows) :
                    r.region = g /\ NotFinite(r.efficiency_score)
                /\ {r \in Range(Report1File.rows) : r.region # g}
                    = Report1Rows(Without(projects, "region", g))
    /\ pc = "r3" =>
        \A g \in GroupKeys(projects, "contractor") :
            ZeroTotalCost(g) =>
                /\ \E r \in Range(Report2File.rows) :
                    /\ r.contractor = g
                    /\ r.reliability_index \in {FromInt(0), FromInt(100), NaN}
                /\ {[r EXCEPT !.rank = 0] : r \in {q \in Range(Report2File.rows) : q.contractor # g}}
                    = Report2Rows(Without(projects, "contractor", g))
    /\ pc = "summary" =>
        \A g \in GroupKeys(projects, "year_type") :
            ZeroPredecessorSavings(g) =>
                /\ \E r \in Range(Report3File.rows) :
                    /\ <<r.funding_year, r.type_of_work>> = g
                    /\ NotFinite(r.year_over_year_change)
                /\ {r \in Range(Report3File.rows) : <<r.funding_year, r.type_of_work>> # g}
                    = Report3Rows(Without(projects, "year_type", g))

\* C10 witness: the three reports are written for records with a region of
\* mean delay 0 and another region, a contractor of total cost 0 and another
\* contractor, a trend group after a year of mean savings 0 and another group
C10_Witness ==
    /\ pc = "summary"
    /\ Report1File.state = "complete"
    /\ Report2File.state = "complete"
    /\ Report3File.state = "complete"
    /\ \E g \in GroupKeys(projects, "region") : ZeroMeanDelay(g)
    /\ \E r \in Range(Report1File.rows) : ~ZeroMeanDelay(r.region)
    /\ \E g \in GroupKeys(projects, "contractor") : ZeroTotalCost(g)
    /\ \E r \in Range(Report2File.rows) : ~ZeroTotalCost(r.contractor)
    /\ \E g \in GroupKeys(projects, "year_type") : ZeroPredecessorSavings(g)
    /\ \E r \in Range(Report3File.rows) :
        ~ZeroPredecessorSavings(<<r.funding_year, r.type_of_work>>)

---------------------------------------------------------------------------
(* Properties of the memoized accessors (checked under SpecDegenerate, in   *)
(* which each of the three report generators calls them on every record).   *)

\* C11: on every record, every call of cost_savings() has returned what the
\* first call returned, which is approved_budget_for_contract - contract_cost;
\* every call of completion_delay_days() has returned what the first call
\* returned, which is actual_completion_date - start_date in days; and
\* neither closure has run more than once, so each cell was written at most
\* once
C11_MemoizedOnce ==
    \A i \in 1..Len(projects) :
        /\ \A k \in 1..Len(calls[i].cost_savings) :
            /\ calls[i].cost_savings[k] = calls[i].cost_savings[1]
            /\ calls[i].cost_savings[k]
                = Fin(projects[i].approved_budget_for_contract - projects[i].contract_cost, 1)
        /\ \A k \in 1..Len(calls[i].completion_delay_days) :
            /\ calls[i].completion_delay_days[k] = calls[i].completion_delay_days[1]
            /\ calls[i].completion_delay_days[k]
                = projects[i].actual_completion_date - projects[i].start_date
        /\ calls[i].savings_inits <= 1
        /\ calls[i].delay_inits <= 1

\* C11 witness: the three reports have run, and on a record whose savings are
\* 10 and whose delay is 10 days cost_savings() was called three times and
\* completion_delay_days() twice, each closure having run once
C11_Witness ==
    /\ pc = "summary"
    /\ \E i \in 1..Len(projects) :
        /\ calls[i].cost_savings = <<Fin(10, 1), Fin(10, 1), Fin(10, 1)>>
        /\ calls[i].completion_delay_days = <<10, 10>>
        /\ calls[i].savings_inits = 1
        /\ calls[i].delay_inits = 1
        /\ cache[i].cached_cost_savings = <<Fin(10, 1)>>
        /\ cache[i].cached_completion_delay_days = <<10>>

---------------------------------------------------------------------------
(* Properties of create_summary (checked under Spec). *)

\* C12: in a written summary, total_contractors is the number of distinct
\* contractor names among the csv rows that are well-formed and of 2021..2023,
\* however many records each has, and total_projects is the number of those
\* rows
C12_SummaryCounts ==
    SummaryFile.state = "complete" =>
        /\ Len(SummaryFile.rows) = 1
        /\ SummaryFile.rows[1].total_contractors
            = Cardinality({rows[i].contractor : i \in GoodRowIdx})
        /\ SummaryFile.rows[1].total_projects = Cardinality(GoodRowIdx)

\* C12 witness: a summary of three records, two of one contractor and one of
\* another, counts 2 contractors and 3 projects
C12_Witness ==
    /\ SummaryFile.state = "complete"
    /\ Len(projects) = 3
    /\ projects[1].contractor = projects[2].contractor
    /\ projects[3].contractor # projects[1].contractor
    /\ SummaryFile.rows[1].total_contractors = 2
    /\ SummaryFile.rows[1].total_projects = 3

---------------------------------------------------------------------------
(* Properties of report 3 within main (checked under Spec). *)

\* C13: in a run of main, every row handed to the writer of report 3 has
\* year_over_year_change 0, whatever the csv file holds
C13_NoChangeInPipeline ==
    \A i \in 1..Len(Report3File.rows) :
        Report3File.rows[i].year_over_year_change = FromInt(0)

\* C13 witness: a run that returned Ok over a csv file with a well-formed row
\* of 2020 and one of 2021 with other savings; report 3 has the row of 2021
C13_Witness ==
    /\ pc = "done"
    /\ ret = "ok"
    /\ Report3File.state = "complete"
    /\ \E i, j \in 1..Len(rows) :
        /\ rows[i].wellformed /\ rows[i].funding_year = 2020
        /\ rows[j].wellformed /\ rows[j].funding_year = 2021
        /\ rows[i].approved_budget_for_contract - rows[i].contract_cost
            # rows[j].approved_budget_for_contract - rows[j].contract_cost
        /\ \E k \in 1..Len(Report3File.rows) :
            /\ Report3File.rows[k].funding_year = 2021
            /\ Report3File.rows[k].type_of_work = rows[j].type_of_work

---------------------------------------------------------------------------
(* Properties of the banking program (checked under SpecBank). *)

\* C14: no two entries of the accounts list have the same name
C14_UniqueNames ==
    \A i, j \in 1..Len(accounts) :
        i # j => accounts[i].name # accounts[j].name

====
